---- MODULE Spec2Model ----
(***************************************************************************)
(* A model of hardlink-dedup (src/src/lib.rs): the discovery of inode      *)
(* groups, the cascade metadata -> prefix -> hash -> content, and the      *)
(* replacement of duplicates by hard links (temporary link, then rename).  *)
(*                                                                         *)
(* The program is sequential; the nondeterminism of the model is           *)
(*   - the iteration order of HashMap / HashSet (every \E over a set),     *)
(*   - the outcome of each I/O operation (success or error),               *)
(*   - the file system and the arguments the run starts from.              *)
(* File contents are sequences of bytes; sizes are scaled down (the 4096   *)
(* byte buffers are BufSize bytes, the 64 byte prefix is PrefixLen bytes)  *)
(* and SHA-256 is a small digest under which collisions exist.             *)
(***************************************************************************)
EXTENDS Integers, Sequences, FiniteSets, TLC

\* ------------------------------------------------------------------ bounds
\* buf1 / buf2 of are_files_same, scaled down from 4096 bytes
BufSize == 2
\* the buffer of read_prefix, scaled down from 64 bytes
PrefixLen == 2
\* I/O errors injected into one behaviour, at most
MaxFailures == 2
\* invocations of dedup in one behaviour, at most
MaxRuns == 2
\* longest content given to are_files_same on its own (SpecCompare)
MaxLen == 4

\* ------------------------------------------------------------ file system
NoInode == 0
NoPath == "none"
Paths == {"p1", "p2", "p3", "p4"}
Dirs == {"d1", "d2"}

\* Path::parent of a discovered path
Parent(p) == IF p = "p4" THEN "d2" ELSE "d1"

\* the contents a file may hold; cA and cB differ and share size, prefix and
\* digest (a collision), cC shares size and prefix only, cD shares size only,
\* cE is a strict prefix of the others' first chunk
cA == <<1, 1, 1, 1>>
cB == <<1, 1, 1, 3>>
cC == <<1, 1, 1, 2>>
cD == <<2, 1, 1, 1>>
cE == <<1, 1>>

File(c, u, g, m) == [content |-> c, uid |-> u, gid |-> g, mode |-> m]

\* the kinds of regular file a run may start from, in a fixed order
FileKinds ==
    << File(cA, 0, 0, 0), File(cB, 0, 0, 0), File(cC, 0, 0, 0), File(cD, 0, 0, 0),
       File(cE, 0, 0, 0), File(cA, 1, 0, 0), File(cA, 0, 1, 0), File(cA, 0, 0, 1) >>

VARIABLES
    \* the file system and the arguments of dedup
    dirents,            \* discovered name space: path -> inode number (NoInode: absent)
    tmp_links,          \* temporary links present: records [dir, name, ino]
    inodes,             \* inode number -> [content, uid, gid, mode]
    roots,              \* paths: the directories given on the command line
    dry_run,
    paranoid,
    \* DedupContext
    total,
    processed,
    bytes_deduped,
    inode_to_paths,
    \* locals of dedup and of the functions it calls
    files,              \* one representative path per inode
    meta_groups,        \* the groups each group_by iterator has still to yield
    prefix_groups,
    hash_groups,
    content_groups,     \* Vec of same_content_groups, not yet iterated
    files_remaining,
    level,              \* innermost loop of dedup: "meta", "prefix", "hash"
    in_content,         \* inside same_content_dedup
    group,              \* the group under consideration
    original_file,
    others,             \* same_files_iterator: members still to come
    other_file,
    other_file_metadata,
    targets,            \* the paths of other_file's inode still to replace
    target,
    tmp_file,
    pc,
    \* output
    log,                \* stdout, in order
    warnings,           \* the warn! sink
    \* environment bookkeeping
    failures,           \* I/O errors injected so far
    fail_budget,        \* I/O errors this behaviour may inject
    run,                \* number of the current invocation
    \* history, read by the properties only
    start_dirents,      \* dirents when the current invocation started
    start_tmp_links,
    fs_ops,             \* hard_link, rename and remove_file calls of this invocation
    renames,            \* successful renames of all invocations
    member_failed,      \* a replacement of the current member failed
    ok_bytes,           \* sizes of the members replaced without any failure
    credits,            \* number of additions to bytes_deduped
    considered,         \* pairs <<original, target>> replace_many_with_hard_link took
    relinked,           \* pairs <<original, target>> renamed over in this invocation
    final_groups,       \* pairs <<original, group>> given to hardlink_dedup
    result,             \* what the last replace_with_hard_link returned
    pre_dirents,        \* dirents and tmp_links when it was called
    pre_tmp_links,
    trace,              \* what the invocation did so far, in order
    \* are_files_same on its own (SpecCompare)
    cmp_file, cmp_other_file, cmp_result

vars == << dirents, tmp_links, inodes, roots, dry_run, paranoid, total, processed,
           bytes_deduped, inode_to_paths, files, meta_groups, prefix_groups,
           hash_groups, content_groups, files_remaining, level, in_content, group,
           original_file, others, other_file, other_file_metadata, targets, target,
           tmp_file, pc, log, warnings, failures, fail_budget, run,
           start_dirents, start_tmp_links, fs_ops, renames, member_failed, ok_bytes,
           credits, considered, relinked, final_groups, result, pre_dirents,
           pre_tmp_links, trace, cmp_file, cmp_other_file, cmp_result >>

\* --------------------------------------------------------------- helpers
Min(a, b) == IF a < b THEN a ELSE b

RECURSIVE Sum(_)
Sum(s) == IF s = <<>> THEN 0 ELSE Head(s) + Sum(Tail(s))

\* what the path names now: metadata(path) / File::open(path)
Ino(p) == dirents[p]
Content(p) == inodes[Ino(p)].content
Size(p) == Len(Content(p))
NLink(i) == Cardinality({p \in Paths : dirents[p] = i})
            + Cardinality({t \in tmp_links : t.ino = i})

\* ----------------------------------------------------------- pure functions
\* one read of a reader positioned at pos: the bytes delivered
ReadChunk(content, pos, n) == SubSeq(content, pos + 1, Min(pos + n, Len(content)))

\* a buffer after a read: the bytes read, then what the buffer held before
FillBuf(buf, data) == [i \in 1..Len(buf) |-> IF i <= Len(data) THEN data[i] ELSE buf[i]]

ZeroBuf(n) == [i \in 1..n |-> 0]

\* the length test of are_files_same, as written
ReadLengthMismatch(read_bytes1, read_bytes2) == read_bytes2 # read_bytes2

\* the loop of are_files_same; chunks counts the iterations made
RECURSIVE AreFilesSameLoop(_, _, _, _, _, _, _)
AreFilesSameLoop(c1, c2, pos1, pos2, buf1, buf2, chunks) ==
    LET data1 == ReadChunk(c1, pos1, BufSize)
        data2 == ReadChunk(c2, pos2, BufSize)
        read_bytes1 == Len(data1)
        read_bytes2 == Len(data2)
        nbuf1 == FillBuf(buf1, data1)
        nbuf2 == FillBuf(buf2, data2)
    IN  IF ReadLengthMismatch(read_bytes1, read_bytes2)
        THEN [same |-> FALSE, chunks |-> chunks + 1]
        ELSE IF read_bytes1 = 0
        THEN [same |-> TRUE, chunks |-> chunks + 1]
        ELSE IF SubSeq(nbuf1, 1, read_bytes1) = SubSeq(nbuf2, 1, read_bytes1)
        THEN AreFilesSameLoop(c1, c2, pos1 + read_bytes1, pos2 + read_bytes2,
                              nbuf1, nbuf2, chunks + 1)
        ELSE [same |-> FALSE, chunks |-> chunks + 1]

\* are_files_same, were it to answer after the first read
are_files_same_first_read(c1, c2) ==
    [same |-> ReadChunk(c1, 0, BufSize) = ReadChunk(c2, 0, BufSize), chunks |-> 1]

are_files_same(c1, c2) ==
    AreFilesSameLoop(c1, c2, 0, 0, ZeroBuf(BufSize), ZeroBuf(BufSize), 0)

\* the whole zeroed buffer after one read
read_prefix(content) == FillBuf(ZeroBuf(PrefixLen), ReadChunk(content, 0, PrefixLen))

\* the digest of the whole content; not injective, as no digest is
calculate_hash(content) == Sum(content) % 2

\* the key of same_metadata_groups, were it the size alone
MetadataKeySizeOnly(p) == << Size(p) >>

\* the key of same_metadata_groups
MetadataKey(p) ==
    << Size(p), inodes[Ino(p)].gid, inodes[Ino(p)].uid, inodes[Ino(p)].mode >>
PrefixKey(p) == read_prefix(Content(p))
HashKey(p) == calculate_hash(Content(p))

\* group_by, were the first file that has a key inserted into every group
group_by_overlapping(unrefined_group, to_key, failed) ==
    LET keyed == unrefined_group \ failed
    IN  {{f \in keyed : to_key[f] = to_key[g]} \cup {CHOOSE f \in keyed : TRUE} :
            g \in keyed}

\* group_by, were the files that have no key collected under a key of their own
group_by_sentinel(unrefined_group, to_key, failed) ==
    LET keyed == unrefined_group \ failed
    IN  {{f \in keyed : to_key[f] = to_key[g]} : g \in keyed}
            \cup (IF failed = {} THEN {} ELSE {failed})

\* group_by: the files whose key could be computed, grouped by key; to_key is
\* the key of each file, as the closure computes it
group_by(unrefined_group, to_key, failed) ==
    LET keyed == unrefined_group \ failed
    IN  {{f \in keyed : to_key[f] = to_key[g]} : g \in keyed}

\* find_equal_files, were it to stop at the first file that compares equal
find_equal_files_first(file, other_files, failed) ==
    LET equal_files ==
            {o \in other_files \ failed : are_files_same(Content(file), Content(o)).same}
    IN  IF equal_files = {} THEN {} ELSE {CHOOSE o \in equal_files : TRUE}

\* find_equal_files, were a comparison that failed to count as equal
find_equal_files_or_failed(file, other_files, failed) ==
    {o \in other_files :
        o \in failed \/ are_files_same(Content(file), Content(o)).same}

\* find_equal_files: the others that compare equal; a failed comparison adds nothing
find_equal_files(file, other_files, failed) ==
    {o \in other_files \ failed : are_files_same(Content(file), Content(o)).same}

\* the percentage, were {:.2} to cut the digits after the second
PercentageTruncated(t, p) == IF t = 0 THEN 10000 ELSE (10000 * p) \div t

\* Display of DedupContext: the percentage in hundredths (two decimals, rounded)
Percentage(t, p) == IF t = 0 THEN 10000 ELSE (20000 * p + t) \div (2 * t)
Prefix(t, p, b) == << Percentage(t, p), dry_run, b >>

Line(kind, original, other, prefix) ==
    [kind |-> kind, file |-> original, other |-> other, ctx |-> prefix]
Warning(kind, file, other) == [kind |-> kind, file |-> file, other |-> other]

\* the entries of trace: one per call that groups, excludes, compares or links
Grouped(stage, parent, failed, groups) ==
    [op |-> "group_by", stage |-> stage, of |-> parent, failed |-> failed,
     groups |-> groups]
Excluded(stage, file) == [op |-> "exclude", stage |-> stage, file |-> file]
Compared(remaining, failed, content_group) ==
    [op |-> "compare", files |-> remaining, failed |-> failed, group |-> content_group]
Deduped(original, same_files_group) ==
    [op |-> "hardlink_dedup", original |-> original, group |-> same_files_group]
NoMetadata(original, other) == [op |-> "no_metadata", original |-> original, file |-> other]
Replaced(original, t, outcome) ==
    [op |-> "replace", original |-> original, target |-> t, result |-> outcome]

\* the subsets of S whose failure the budget still allows
Failing(S) == {F \in SUBSET S : failures + Cardinality(F) <= fail_budget}
MayFail == failures < fail_budget

\* ------------------------------------------------------------------- Init
PathSeq == << "p1", "p2", "p3", "p4" >>
NPaths == Len(PathSeq)

PathIndex(p) == CHOOSE k \in 1..NPaths : PathSeq[k] = p

\* the ways the paths share inodes, as the inode number of each path in order
Partitions ==
    { << 1, 2, 3, 4 >>, << 1, 1, 2, 3 >>, << 1, 2, 3, 3 >>,
      << 1, 1, 2, 2 >>, << 1, 2, 2, 2 >>, << 1, 1, 1, 1 >> }

Layouts == {[p \in Paths |-> s[PathIndex(p)]] : s \in Partitions}

InodesOf(d) == {d[p] : p \in Paths}

\* the kinds found together: files that differ in content only (any number of
\* them), or files that differ in size, owner, group or mode (three at most), or
\* files that differ in size or in prefix (four)
ContentKinds == {1, 2, 3, 4}
MetadataKinds == {1, 5, 6, 7, 8}
SizeAndPrefixKinds == {1, 4, 5}
KindFamilies(d) ==
    IF Cardinality(InodesOf(d)) <= 3 THEN {ContentKinds, MetadataKinds}
    ELSE {ContentKinds, SizeAndPrefixKinds}

\* one kind per inode; inode numbers carry no meaning, so kinds are taken in order
KindChoices(d) ==
    UNION {{f \in [InodesOf(d) -> F] : \A i, j \in InodesOf(d) : i <= j => f[i] <= f[j]} :
              F \in KindFamilies(d)}

InodeTables(d) == {[i \in InodesOf(d) |-> FileKinds[k[i]]] : k \in KindChoices(d)}

\* runs that inject I/O errors start from files that are all alike, on three
\* inodes at most, or (one error) from two pairs of files that differ in the prefix;
\* a budget allows every smaller number of errors as well
Budgets(d, t) ==
    IF Cardinality(InodesOf(d)) <= 3 /\ \A i \in InodesOf(d) : t[i] = FileKinds[1]
    THEN {0, MaxFailures}
    ELSE IF Cardinality(InodesOf(d)) = 4
            /\ t = [i \in InodesOf(d) |-> IF i <= 2 THEN FileKinds[1] ELSE FileKinds[4]]
    THEN {0, 1}
    ELSE {0}

\* the locals of an invocation that has not started
Idle ==
    /\ total = 0
    /\ processed = 0
    /\ bytes_deduped = 0
    /\ inode_to_paths = << >>
    /\ files = {}
    /\ meta_groups = {}
    /\ prefix_groups = {}
    /\ hash_groups = {}
    /\ content_groups = << >>
    /\ files_remaining = {}
    /\ level = "meta"
    /\ in_content = FALSE
    /\ group = {}
    /\ original_file = NoPath
    /\ others = {}
    /\ other_file = NoPath
    /\ other_file_metadata = [ino |-> NoInode, len |-> 0]
    /\ targets = {}
    /\ target = NoPath
    /\ tmp_file = [dir |-> "", name |-> 0]
    /\ log = << >>
    /\ warnings = {}
    /\ fs_ops = 0
    /\ member_failed = FALSE
    /\ ok_bytes = 0
    /\ credits = 0
    /\ considered = {}
    /\ relinked = {}
    /\ final_groups = {}
    /\ result = "none"
    /\ trace = << >>

\* the same, of the invocation about to start
IdleNext ==
    /\ total' = 0
    /\ processed' = 0
    /\ bytes_deduped' = 0
    /\ inode_to_paths' = << >>
    /\ files' = {}
    /\ meta_groups' = {}
    /\ prefix_groups' = {}
    /\ hash_groups' = {}
    /\ content_groups' = << >>
    /\ files_remaining' = {}
    /\ level' = "meta"
    /\ in_content' = FALSE
    /\ group' = {}
    /\ original_file' = NoPath
    /\ others' = {}
    /\ other_file' = NoPath
    /\ other_file_metadata' = [ino |-> NoInode, len |-> 0]
    /\ targets' = {}
    /\ target' = NoPath
    /\ tmp_file' = [dir |-> "", name |-> 0]
    /\ log' = << >>
    /\ warnings' = {}
    /\ fs_ops' = 0
    /\ member_failed' = FALSE
    /\ ok_bytes' = 0
    /\ credits' = 0
    /\ considered' = {}
    /\ relinked' = {}
    /\ final_groups' = {}
    /\ result' = "none"
    /\ trace' = << >>

NoCompare ==
    /\ cmp_file = << >>
    /\ cmp_other_file = << >>
    /\ cmp_result = [same |-> FALSE, chunks |-> 0]

Init ==
    /\ dirents \in Layouts
    /\ inodes \in InodeTables(dirents)
    /\ tmp_links = {}
    /\ roots \in {{}, {"d1"}, Dirs}
    /\ dry_run \in BOOLEAN
    /\ paranoid \in BOOLEAN
    /\ fail_budget \in Budgets(dirents, inodes)
    /\ failures = 0
    /\ run = 1
    /\ renames = 0
    /\ pc = "start"
    /\ start_dirents = dirents
    /\ start_tmp_links = tmp_links
    /\ pre_dirents = dirents
    /\ pre_tmp_links = tmp_links
    /\ Idle
    /\ NoCompare

\* ---------------------------------------------------------------- frames
env_vars == << inodes, roots, dry_run, paranoid, fail_budget, run, start_dirents,
               start_tmp_links, cmp_file, cmp_other_file, cmp_result >>
fs_vars == << dirents, tmp_links, fs_ops, renames, relinked, result, pre_dirents,
              pre_tmp_links >>
ctx_vars == << total, inode_to_paths >>
iter_vars == << meta_groups, prefix_groups, hash_groups, content_groups,
                files_remaining >>
hl_vars == << original_file, others, other_file, other_file_metadata, targets, target,
              tmp_file, member_failed, ok_bytes, credits, considered, final_groups >>

\* the stage whose group is under consideration
Stage == IF in_content THEN "content" ELSE level

\* the reason, were same_content_dedup to pass the one of the loop it was called from
ReasonOfLoop ==
    IF level = "meta" THEN "It has unique size, uid, gid, or mode."
    ELSE IF level = "prefix" THEN "It has a unique prefix."
    ELSE "It has a unique hash."

\* the reason exclude_if_unique is given at each call
Reason ==
    IF in_content THEN "It has unique contents."
    ELSE IF level = "meta" THEN "It has unique size, uid, gid, or mode."
    ELSE IF level = "prefix" THEN "It has a unique prefix."
    ELSE "It has a unique hash."

\* -------------------------------------------------------------- discovery
\* find_files over the roots: the regular files under them
Discovered == {p \in Paths : Parent(p) \in roots /\ dirents[p] # NoInode}

\* find_inode_groups, were each path to overwrite the entry of its inode
InodeGroupsLastPath ==
    [i \in {dirents[p] : p \in Discovered} |->
        {CHOOSE p \in Discovered : dirents[p] = i}]

\* find_inode_groups: inode number -> the discovered paths of that inode
InodeGroups ==
    [i \in {dirents[p] : p \in Discovered} |-> {p \in Discovered : dirents[p] = i}]

\* file_group.iter().nth(0) of every inode group: one path of each, any of them
Representatives(groups) ==
    {S \in SUBSET Discovered :
        \A i \in DOMAIN groups : Cardinality(S \cap groups[i]) = 1}

\* dedup, lines 53-59
find_inode_groups ==
    /\ pc = "start"
    /\ inode_to_paths' = InodeGroups
    /\ total' = Cardinality(DOMAIN InodeGroups)
    /\ files' \in Representatives(InodeGroups)
    /\ log' = Append(log, Line("Processing", NoPath, total', << >>))
    /\ pc' = "metadata"
    /\ UNCHANGED << trace, env_vars, fs_vars, iter_vars, hl_vars, processed, bytes_deduped,
                    level, in_content, group, warnings, failures >>

\* ---------------------------------------------------------------- cascade
same_metadata_groups ==
    /\ pc = "metadata"
    /\ \E failed \in Failing(files) :
          /\ meta_groups' = group_by(files, [f \in files |-> MetadataKey(f)], failed)
          /\ trace' = Append(trace, Grouped("meta", files, failed, meta_groups'))
          /\ warnings' = warnings \cup {Warning("metadata", f, NoPath) : f \in failed}
          /\ failures' = failures + Cardinality(failed)
    /\ level' = "meta"
    /\ pc' = "loop"
    /\ UNCHANGED << env_vars, fs_vars, ctx_vars, hl_vars, processed, bytes_deduped,
                    files, prefix_groups, hash_groups, content_groups, files_remaining,
                    in_content, group, log >>

\* the loop over the metadata groups, were it to go on before the loops inside it
\* have ended
next_size_group_early ==
    /\ pc = "loop" /\ ~in_content
    /\ \E g \in meta_groups :
          /\ group' = g
          /\ meta_groups' = meta_groups \ {g}
    /\ pc' = "check"
    /\ UNCHANGED << trace, env_vars, fs_vars, ctx_vars, hl_vars, processed, bytes_deduped,
                    files, prefix_groups, hash_groups, content_groups, files_remaining,
                    level, in_content, log, warnings, failures >>

\* for size_group in ... (line 60)
next_size_group ==
    /\ pc = "loop" /\ ~in_content /\ level = "meta"
    /\ \E g \in meta_groups :
          /\ group' = g
          /\ meta_groups' = meta_groups \ {g}
    /\ pc' = "check"
    /\ UNCHANGED << trace, env_vars, fs_vars, ctx_vars, hl_vars, processed, bytes_deduped,
                    files, prefix_groups, hash_groups, content_groups, files_remaining,
                    level, in_content, log, warnings, failures >>

\* for prefix_group in ... (line 71)
next_prefix_group ==
    /\ pc = "loop" /\ ~in_content /\ level = "prefix"
    /\ \E g \in prefix_groups :
          /\ group' = g
          /\ prefix_groups' = prefix_groups \ {g}
    /\ pc' = "check"
    /\ UNCHANGED << trace, env_vars, fs_vars, ctx_vars, hl_vars, processed, bytes_deduped,
                    files, meta_groups, hash_groups, content_groups, files_remaining,
                    level, in_content, log, warnings, failures >>

\* for hash_group in ... (line 78)
next_hash_group ==
    /\ pc = "loop" /\ ~in_content /\ level = "hash"
    /\ \E g \in hash_groups :
          /\ group' = g
          /\ hash_groups' = hash_groups \ {g}
    /\ pc' = "check"
    /\ UNCHANGED << trace, env_vars, fs_vars, ctx_vars, hl_vars, processed, bytes_deduped,
                    files, meta_groups, prefix_groups, content_groups, files_remaining,
                    level, in_content, log, warnings, failures >>

\* the hash groups, or the prefix groups, of the current group are exhausted
end_of_groups ==
    /\ pc = "loop" /\ ~in_content
    /\ \/ level = "hash" /\ hash_groups = {} /\ level' = "prefix"
       \/ level = "prefix" /\ prefix_groups = {} /\ level' = "meta"
    /\ UNCHANGED << trace, env_vars, fs_vars, ctx_vars, iter_vars, hl_vars, processed,
                    bytes_deduped, files, in_content, group, pc, log, warnings,
                    failures >>

\* the metadata groups are exhausted: the summary (line 90)
end_dedup ==
    /\ pc = "loop" /\ ~in_content /\ level = "meta"
    /\ meta_groups = {}
    /\ log' = Append(log, Line("Estimated saved bytes", NoPath, bytes_deduped, << >>))
    /\ pc' = "done"
    /\ UNCHANGED << trace, env_vars, fs_vars, ctx_vars, iter_vars, hl_vars, processed,
                    bytes_deduped, files, level, in_content, group, warnings, failures >>

exclude_if_unique ==
    /\ pc = "check"
    /\ Cardinality(group) <= 1
    /\ processed' = processed + Cardinality(group)
    /\ IF group = {}
       THEN /\ pc' = "panicked"
            /\ log' = log
            /\ trace' = trace
       ELSE /\ pc' = "loop"
            /\ \E f \in group :
                  /\ log' = Append(log, Line("Excluding", f, Reason,
                                             Prefix(total, processed', bytes_deduped)))
                  /\ trace' = Append(trace, Excluded(Stage, f))
    /\ UNCHANGED << env_vars, fs_vars, ctx_vars, iter_vars, hl_vars, bytes_deduped,
                    files, level, in_content, group, warnings, failures >>

\* dedup_if_pair, were it to call hardlink_dedup on the pair
dedup_if_pair_uncompared ==
    /\ pc = "check" /\ ~in_content /\ level \in {"meta", "prefix"}
    /\ Cardinality(group) = 2
    /\ pc' = "hardlink"
    /\ UNCHANGED << trace, env_vars, fs_vars, ctx_vars, iter_vars, hl_vars, processed,
                    bytes_deduped, files, level, in_content, group, log, warnings,
                    failures >>

\* dedup_if_pair and the call of same_content_dedup it makes
dedup_if_pair ==
    /\ pc = "check" /\ ~in_content /\ level \in {"meta", "prefix"}
    /\ Cardinality(group) = 2
    /\ files_remaining' = group
    /\ content_groups' = << >>
    /\ pc' = "partition"
    /\ UNCHANGED << trace, env_vars, fs_vars, ctx_vars, hl_vars, processed, bytes_deduped,
                    files, meta_groups, prefix_groups, hash_groups, level, in_content,
                    group, log, warnings, failures >>

same_prefix_groups ==
    /\ pc = "check" /\ ~in_content /\ level = "meta"
    /\ Cardinality(group) > 2
    /\ \E failed \in Failing(group) :
          /\ prefix_groups' = group_by(group, [f \in group |-> PrefixKey(f)], failed)
          /\ trace' = Append(trace, Grouped("prefix", group, failed, prefix_groups'))
          /\ warnings' = warnings \cup {Warning("prefix", f, NoPath) : f \in failed}
          /\ failures' = failures + Cardinality(failed)
    /\ level' = "prefix"
    /\ pc' = "loop"
    /\ UNCHANGED << env_vars, fs_vars, ctx_vars, hl_vars, processed, bytes_deduped,
                    files, meta_groups, hash_groups, content_groups, files_remaining,
                    in_content, group, log >>

same_hash_groups ==
    /\ pc = "check" /\ ~in_content /\ level = "prefix"
    /\ Cardinality(group) > 2
    /\ \E failed \in Failing(group) :
          /\ hash_groups' = group_by(group, [f \in group |-> HashKey(f)], failed)
          /\ trace' = Append(trace, Grouped("hash", group, failed, hash_groups'))
          /\ warnings' = warnings \cup {Warning("hash", f, NoPath) : f \in failed}
          /\ failures' = failures + Cardinality(failed)
    /\ level' = "hash"
    /\ pc' = "loop"
    /\ UNCHANGED << env_vars, fs_vars, ctx_vars, hl_vars, processed, bytes_deduped,
                    files, meta_groups, prefix_groups, content_groups, files_remaining,
                    in_content, group, log >>

\* a hash group of two or more given to hardlink_dedup whatever the flag
dedup_hash_group_trusting ==
    /\ pc = "check" /\ ~in_content /\ level = "hash"
    /\ Cardinality(group) > 1
    /\ pc' = "hardlink"
    /\ UNCHANGED << trace, env_vars, fs_vars, ctx_vars, iter_vars, hl_vars, processed,
                    bytes_deduped, files, level, in_content, group, log, warnings,
                    failures >>

\* lines 82-86: a hash group of two or more
dedup_hash_group ==
    /\ pc = "check" /\ ~in_content /\ level = "hash"
    /\ Cardinality(group) > 1
    /\ IF paranoid
       THEN /\ files_remaining' = group
            /\ content_groups' = << >>
            /\ pc' = "partition"
       ELSE /\ pc' = "hardlink"
            /\ UNCHANGED << files_remaining, content_groups >>
    /\ UNCHANGED << trace, env_vars, fs_vars, ctx_vars, hl_vars, processed, bytes_deduped,
                    files, meta_groups, prefix_groups, hash_groups, level, in_content,
                    group, log, warnings, failures >>

\* one iteration of the loop of same_content_groups
same_content_groups ==
    /\ pc = "partition"
    /\ \E file \in files_remaining :
          \E failed \in Failing(files_remaining \ {file}) :
             LET rest == files_remaining \ {file}
                 content_group == find_equal_files(file, rest, failed)
             IN  /\ files_remaining' = rest \ content_group
                 /\ content_groups' = Append(content_groups, content_group \cup {file})
                 /\ warnings' = warnings \cup {Warning("compare", file, o) : o \in failed}
                 /\ trace' = Append(trace, Compared(files_remaining, failed,
                                                         content_group \cup {file}))
                 /\ failures' = failures + Cardinality(failed)
    /\ in_content' = (files_remaining' = {})
    /\ pc' = IF files_remaining' = {} THEN "loop" ELSE "partition"
    /\ UNCHANGED << env_vars, fs_vars, ctx_vars, hl_vars, processed, bytes_deduped,
                    files, meta_groups, prefix_groups, hash_groups, level, group, log >>

\* for content_group in same_content_groups(file_group) (line 122)
next_content_group ==
    /\ pc = "loop" /\ in_content
    /\ IF content_groups = << >>
       THEN /\ in_content' = FALSE
            /\ UNCHANGED << content_groups, group, pc >>
       ELSE /\ group' = Head(content_groups)
            /\ content_groups' = Tail(content_groups)
            /\ pc' = "check"
            /\ UNCHANGED in_content
    /\ UNCHANGED << trace, env_vars, fs_vars, ctx_vars, hl_vars, processed, bytes_deduped,
                    files, meta_groups, prefix_groups, hash_groups, files_remaining,
                    level, log, warnings, failures >>

\* line 126
hardlink_content_group ==
    /\ pc = "check" /\ in_content
    /\ Cardinality(group) > 1
    /\ pc' = "hardlink"
    /\ UNCHANGED << trace, env_vars, fs_vars, ctx_vars, iter_vars, hl_vars, processed,
                    bytes_deduped, files, level, in_content, group, log, warnings,
                    failures >>

\* --------------------------------------------------------- hardlink_dedup
\* hardlink_dedup, were the loop over the others to start the iteration anew
hardlink_dedup_iterating_anew ==
    /\ pc = "hardlink"
    /\ \E o \in group :
          /\ original_file' = o
          /\ others' = group
          /\ final_groups' = final_groups \cup {<< o, group >>}
          /\ trace' = Append(trace, Deduped(o, group))
    /\ processed' = processed + 1
    /\ pc' = "others"
    /\ UNCHANGED << env_vars, fs_vars, ctx_vars, iter_vars, bytes_deduped, files, level,
                    in_content, group, other_file, other_file_metadata, targets, target,
                    tmp_file, member_failed, ok_bytes, credits, considered, log,
                    warnings, failures >>

\* hardlink_dedup, were it to count the whole group when it takes the original
hardlink_dedup_counting_group ==
    /\ pc = "hardlink"
    /\ \E o \in group :
          /\ original_file' = o
          /\ others' = group \ {o}
          /\ final_groups' = final_groups \cup {<< o, group >>}
          /\ trace' = Append(trace, Deduped(o, group))
    /\ processed' = processed + Cardinality(group)
    /\ pc' = "others"
    /\ UNCHANGED << env_vars, fs_vars, ctx_vars, iter_vars, bytes_deduped, files, level,
                    in_content, group, other_file, other_file_metadata, targets, target,
                    tmp_file, member_failed, ok_bytes, credits, considered, log,
                    warnings, failures >>

\* lines 131-133: the first member the iterator yields is the original
hardlink_dedup ==
    /\ pc = "hardlink"
    /\ \E o \in group :
          /\ original_file' = o
          /\ others' = group \ {o}
          /\ final_groups' = final_groups \cup {<< o, group >>}
          /\ trace' = Append(trace, Deduped(o, group))
    /\ processed' = processed + 1
    /\ pc' = "others"
    /\ UNCHANGED << env_vars, fs_vars, ctx_vars, iter_vars, bytes_deduped, files, level,
                    in_content, group, other_file, other_file_metadata, targets, target,
                    tmp_file, member_failed, ok_bytes, credits, considered, log,
                    warnings, failures >>

\* ctx.inode_to_paths[&other_file_metadata.ino()]: every path discovery recorded
TargetsOnlyRepresentative(ino, other) == {other}
TargetsOf(ino, other) == inode_to_paths[ino]

\* lines 134-139: the next member, and its metadata
next_other_file ==
    /\ pc = "others"
    /\ others # {}
    /\ \E o \in others :
          /\ other_file' = o
          /\ others' = others \ {o}
          /\ target' = NoPath
          /\ processed' = processed + 1
          /\ \/ /\ Ino(o) # NoInode
                /\ other_file_metadata' = [ino |-> Ino(o), len |-> Size(o)]
                /\ IF Ino(o) \in DOMAIN inode_to_paths
                   THEN /\ targets' = TargetsOf(Ino(o), o)
                        /\ pc' = "targets"
                   ELSE /\ targets' = {}
                        /\ pc' = "panicked"
                /\ member_failed' = FALSE
                /\ UNCHANGED << failures, trace >>
             \/ /\ MayFail \/ Ino(o) = NoInode
                /\ failures' = failures + 1
                /\ trace' = Append(trace, NoMetadata(original_file, o))
                /\ UNCHANGED << other_file_metadata, targets, pc, member_failed >>
    /\ UNCHANGED << env_vars, fs_vars, ctx_vars, iter_vars, bytes_deduped, files, level,
                    in_content, group, original_file, tmp_file, ok_bytes, credits,
                    considered, final_groups, log, warnings >>

\* the iterator is exhausted: hardlink_dedup returns
end_hardlink_dedup ==
    /\ pc = "others"
    /\ others = {}
    /\ pc' = "loop"
    /\ UNCHANGED << trace, env_vars, fs_vars, ctx_vars, iter_vars, hl_vars, processed,
                    bytes_deduped, files, level, in_content, group, log, warnings,
                    failures >>

\* the smallest name no temporary link has: Uuid::new_v4 never repeats
FreshName == Cardinality(tmp_links) + 1

\* a target of a run that reports what it would do
would_hardlink ==
    /\ pc = "targets"
    /\ targets # {}
    /\ \E t \in targets :
          /\ targets' = targets \ {t}
          /\ target' = t
          /\ considered' = considered \cup {<< original_file, t >>}
          /\ log' = Append(log, Line("Would hardlink", original_file, t,
                                     Prefix(total, processed, bytes_deduped)))
          /\ trace' = Append(trace, Replaced(original_file, t, "would"))
    /\ UNCHANGED << env_vars, fs_vars, ctx_vars, iter_vars, processed, bytes_deduped,
                    files, level, in_content, group, original_file, others, other_file,
                    other_file_metadata, tmp_file, member_failed, ok_bytes, credits,
                    final_groups, pc, warnings, failures >>

\* a target of a run that replaces: replace_with_hard_link is entered (line 174)
begin_replace ==
    /\ pc = "targets"
    /\ targets # {}
    /\ \E t \in targets :
          /\ targets' = targets \ {t}
          /\ target' = t
          /\ considered' = considered \cup {<< original_file, t >>}
          /\ tmp_file' = [dir |-> Parent(t), name |-> FreshName]
    /\ result' = "none"
    /\ pre_dirents' = dirents
    /\ pre_tmp_links' = tmp_links
    /\ pc' = "link"
    /\ UNCHANGED << trace, env_vars, ctx_vars, iter_vars, processed, bytes_deduped, files, level,
                    in_content, group, original_file, others, other_file,
                    other_file_metadata, member_failed, ok_bytes, credits, final_groups,
                    dirents, tmp_links, fs_ops, renames, relinked, log, warnings,
                    failures >>

\* the loop of replace_many_with_hard_link, were the flag not looked at
replace_many_ignoring_dry_run == begin_replace

\* the loop of replace_many_with_hard_link, lines 155-162
replace_many_with_hard_link ==
    IF dry_run THEN would_hardlink ELSE begin_replace

\* line 143, were the size added only when every replacement of the member succeeded
add_bytes_deduped_if_replaced ==
    /\ pc = "targets"
    /\ targets = {}
    /\ bytes_deduped' = bytes_deduped + (IF member_failed THEN 0 ELSE other_file_metadata.len)
    /\ credits' = credits + 1
    /\ ok_bytes' = ok_bytes + (IF member_failed THEN 0 ELSE other_file_metadata.len)
    /\ pc' = "others"
    /\ UNCHANGED << trace, env_vars, fs_vars, ctx_vars, iter_vars, processed, files, level,
                    in_content, group, original_file, others, other_file,
                    other_file_metadata, targets, target, tmp_file, member_failed,
                    considered, final_groups, log, warnings, failures >>

\* line 143, after replace_many_with_hard_link returned
add_bytes_deduped ==
    /\ pc = "targets"
    /\ targets = {}
    /\ bytes_deduped' = bytes_deduped + other_file_metadata.len
    /\ credits' = credits + 1
    /\ ok_bytes' = ok_bytes + (IF member_failed THEN 0 ELSE other_file_metadata.len)
    /\ pc' = "others"
    /\ UNCHANGED << trace, env_vars, fs_vars, ctx_vars, iter_vars, processed, files, level,
                    in_content, group, original_file, others, other_file,
                    other_file_metadata, targets, target, tmp_file, member_failed,
                    considered, final_groups, log, warnings, failures >>

\* ------------------------------------------------- replace_with_hard_link
TmpEntry(ino) == [dir |-> tmp_file.dir, name |-> tmp_file.name, ino |-> ino]

\* hard_link, were its error to end the loop over the targets as well
hard_link_or_return ==
    /\ pc = "link"
    /\ fs_ops' = fs_ops + 1
    /\ \/ /\ Ino(original_file) # NoInode
          /\ tmp_links' = tmp_links \cup {TmpEntry(Ino(original_file))}
          /\ pc' = "rename"
          /\ UNCHANGED << result, warnings, failures, member_failed, trace, targets >>
       \/ /\ MayFail \/ Ino(original_file) = NoInode
          /\ failures' = failures + 1
          /\ result' = "link_err"
          /\ member_failed' = TRUE
          /\ warnings' = warnings \cup {Warning("link_err", original_file, target)}
          /\ trace' = Append(trace, Replaced(original_file, target, "link_err"))
          /\ targets' = {}
          /\ pc' = "targets"
          /\ UNCHANGED tmp_links
    /\ UNCHANGED << env_vars, ctx_vars, iter_vars, processed, bytes_deduped, files, level,
                    in_content, group, original_file, others, other_file,
                    other_file_metadata, target, tmp_file, ok_bytes, credits,
                    considered, final_groups, dirents, renames, relinked, pre_dirents,
                    pre_tmp_links, log >>

\* line 175: hard_link(original_file, &tmp_file); on error the function returns
hard_link ==
    /\ pc = "link"
    /\ fs_ops' = fs_ops + 1
    /\ \/ /\ Ino(original_file) # NoInode
          /\ tmp_links' = tmp_links \cup {TmpEntry(Ino(original_file))}
          /\ pc' = "rename"
          /\ UNCHANGED << result, warnings, failures, member_failed, trace >>
       \/ /\ MayFail \/ Ino(original_file) = NoInode
          /\ failures' = failures + 1
          /\ result' = "link_err"
          /\ member_failed' = TRUE
          /\ warnings' = warnings \cup {Warning("link_err", original_file, target)}
          /\ trace' = Append(trace, Replaced(original_file, target, "link_err"))
          /\ pc' = "targets"
          /\ UNCHANGED tmp_links
    /\ UNCHANGED << env_vars, ctx_vars, iter_vars, processed, bytes_deduped, files, level,
                    in_content, group, original_file, others, other_file,
                    other_file_metadata, targets, target, tmp_file, ok_bytes, credits,
                    considered, final_groups, dirents, renames, relinked, pre_dirents,
                    pre_tmp_links, log >>

\* rename, were it to leave the old name in place as link(2) does
RenamedKeepingOldName(d, links, t, tmp) ==
    [dirents |-> [d EXCEPT ![t] = tmp.ino], tmp_links |-> links]

\* rename(2) of a temporary link onto the target: one step, and nothing at all when
\* both names already are links to one inode
Renamed(d, links, t, tmp) ==
    IF d[t] = tmp.ino
    THEN [dirents |-> d, tmp_links |-> links]
    ELSE [dirents |-> [d EXCEPT ![t] = tmp.ino], tmp_links |-> links \ {tmp}]

\* a rename that fails leaves both names as they were
RenameFailedUnlinked(d, t) == [d EXCEPT ![t] = NoInode]
RenameFailed(d, t) == d

\* line 181: rename(&tmp_file, target)
rename ==
    /\ pc = "rename"
    /\ fs_ops' = fs_ops + 1
    /\ LET tmp == CHOOSE e \in tmp_links : e.dir = tmp_file.dir /\ e.name = tmp_file.name
       IN  \/ /\ dirents' = Renamed(dirents, tmp_links, target, tmp).dirents
              /\ tmp_links' = Renamed(dirents, tmp_links, target, tmp).tmp_links
              /\ result' = "ok"
              /\ renames' = renames + 1
              /\ relinked' = relinked \cup {<< original_file, target >>}
              /\ log' = Append(log, Line("Hardlinked", original_file, target,
                                         Prefix(total, processed, bytes_deduped)))
              /\ trace' = Append(trace, Replaced(original_file, target, "ok"))
              /\ pc' = "targets"
              /\ UNCHANGED << failures, member_failed >>
           \/ /\ MayFail
              /\ failures' = failures + 1
              /\ dirents' = RenameFailed(dirents, target)
              /\ member_failed' = TRUE
              /\ pc' = "cleanup"
              /\ UNCHANGED << tmp_links, result, renames, relinked, log, trace >>
    /\ UNCHANGED << env_vars, ctx_vars, iter_vars, processed, bytes_deduped, files, level,
                    in_content, group, original_file, others, other_file,
                    other_file_metadata, targets, target, tmp_file, ok_bytes, credits,
                    considered, final_groups, pre_dirents, pre_tmp_links, warnings >>

\* the temporary link after the rename failed, were it left where it is
CleanedUpNever(links, dir, name, ok) == links
\* lines 188-197: remove_file(&tmp_file) after the rename failed
CleanedUp(links, dir, name, ok) ==
    IF ok THEN {e \in links : ~(e.dir = dir /\ e.name = name)} ELSE links

remove_file ==
    /\ pc = "cleanup"
    /\ fs_ops' = fs_ops + 1
    /\ \E ok \in {TRUE} \cup (IF MayFail THEN {FALSE} ELSE {}) :
          /\ tmp_links' = CleanedUp(tmp_links, tmp_file.dir, tmp_file.name, ok)
          /\ failures' = failures + (IF ok THEN 0 ELSE 1)
          /\ result' = IF ok THEN "rename_err" ELSE "rename_and_remove_err"
          /\ warnings' = warnings \cup {Warning(result', original_file, target)}
          /\ trace' = Append(trace, Replaced(original_file, target, result'))
    /\ pc' = "targets"
    /\ UNCHANGED << env_vars, ctx_vars, iter_vars, hl_vars, processed, bytes_deduped,
                    files, level, in_content, group, dirents, renames, relinked,
                    pre_dirents, pre_tmp_links, log >>

\* ------------------------------------------------------------ another run
\* dedup is invoked again, with the same arguments, on what the run before left;
\* a walk would also find the temporary links left behind, which are no Paths, so
\* only a run that left none is followed by another
dedup_again ==
    /\ pc = "done"
    /\ run < MaxRuns
    /\ tmp_links = {}
    /\ run' = run + 1
    /\ pc' = "start"
    /\ start_dirents' = dirents
    /\ start_tmp_links' = tmp_links
    /\ IdleNext
    /\ UNCHANGED << dirents, tmp_links, inodes, roots, dry_run, paranoid, failures,
                    fail_budget, renames, pre_dirents, pre_tmp_links, cmp_file,
                    cmp_other_file, cmp_result >>

Next ==
    \/ find_inode_groups
    \/ same_metadata_groups
    \/ next_size_group
    \/ next_prefix_group
    \/ next_hash_group
    \/ end_of_groups
    \/ end_dedup
    \/ exclude_if_unique
    \/ dedup_if_pair
    \/ same_prefix_groups
    \/ same_hash_groups
    \/ dedup_hash_group
    \/ same_content_groups
    \/ next_content_group
    \/ hardlink_content_group
    \/ hardlink_dedup
    \/ next_other_file
    \/ end_hardlink_dedup
    \/ replace_many_with_hard_link
    \/ add_bytes_deduped
    \/ hard_link
    \/ rename
    \/ remove_file
    \/ dedup_again

Spec == Init /\ [][Next]_vars

\* dedup runs on one thread that nothing suspends: a step that can be taken is taken
SpecFair == Spec /\ WF_vars(Next)

\* ------------------------------------------------- are_files_same alone
Bytes == {0, 1}
RECURSIVE SeqsUpTo(_)
SeqsUpTo(n) ==
    IF n = 0 THEN {<< >>}
    ELSE SeqsUpTo(n - 1) \cup {Append(c, b) : c \in {x \in SeqsUpTo(n - 1) : Len(x) = n - 1},
                                              b \in Bytes}
CompareContents == SeqsUpTo(MaxLen)

InitCompare ==
    /\ cmp_file \in CompareContents
    /\ cmp_other_file \in CompareContents
    /\ cmp_result = [same |-> FALSE, chunks |-> 0]
    /\ dirents = [p \in Paths |-> NoInode]
    /\ inodes = << >>
    /\ tmp_links = {}
    /\ roots = {}
    /\ dry_run = FALSE
    /\ paranoid = FALSE
    /\ fail_budget = 0
    /\ failures = 0
    /\ run = 1
    /\ renames = 0
    /\ pc = "compare"
    /\ start_dirents = dirents
    /\ start_tmp_links = tmp_links
    /\ pre_dirents = dirents
    /\ pre_tmp_links = tmp_links
    /\ Idle

\* are_files_same(file, other_file) on two readable files
compare_files ==
    /\ pc = "compare"
    /\ cmp_result' = are_files_same(cmp_file, cmp_other_file)
    /\ pc' = "compared"
    /\ UNCHANGED << trace, dirents, tmp_links, inodes, roots, dry_run, paranoid, total,
                    processed, bytes_deduped, inode_to_paths, files, meta_groups,
                    prefix_groups, hash_groups, content_groups, files_remaining, level,
                    in_content, group, original_file, others, other_file,
                    other_file_metadata, targets, target, tmp_file, log, warnings,
                    failures, fail_budget, run, start_dirents, start_tmp_links, fs_ops,
                    renames, member_failed, ok_bytes, credits, considered, relinked,
                    final_groups, result, pre_dirents, pre_tmp_links, cmp_file,
                    cmp_other_file >>

NextCompare == compare_files

SpecCompare == InitCompare /\ [][NextCompare]_vars

\* --------------------------------------------- same_content_groups alone
\* the contents of the files it is given: of one size, or not
PartitionContents == {cA, cB, cC, cD, cE}

\* same_content_groups(files) is entered: readable files, each on its own inode
InitPartition ==
    /\ dirents = [p \in Paths |-> PathIndex(p)]
    /\ inodes \in [1..NPaths -> {File(c, 0, 0, 0) : c \in PartitionContents}]
    /\ group \in SUBSET Paths \ {{}}
    /\ files = group
    /\ files_remaining = group
    /\ tmp_links = {}
    /\ roots = Dirs
    /\ dry_run = FALSE
    /\ paranoid = TRUE
    /\ fail_budget = 0
    /\ failures = 0
    /\ run = 1
    /\ renames = 0
    /\ pc = "partition"
    /\ start_dirents = dirents
    /\ start_tmp_links = tmp_links
    /\ pre_dirents = dirents
    /\ pre_tmp_links = tmp_links
    /\ total = 0
    /\ processed = 0
    /\ bytes_deduped = 0
    /\ inode_to_paths = << >>
    /\ meta_groups = {}
    /\ prefix_groups = {}
    /\ hash_groups = {}
    /\ content_groups = << >>
    /\ level = "meta"
    /\ in_content = FALSE
    /\ original_file = NoPath
    /\ others = {}
    /\ other_file = NoPath
    /\ other_file_metadata = [ino |-> NoInode, len |-> 0]
    /\ targets = {}
    /\ target = NoPath
    /\ tmp_file = [dir |-> "", name |-> 0]
    /\ log = << >>
    /\ warnings = {}
    /\ fs_ops = 0
    /\ member_failed = FALSE
    /\ ok_bytes = 0
    /\ credits = 0
    /\ considered = {}
    /\ relinked = {}
    /\ final_groups = {}
    /\ result = "none"
    /\ trace = << >>
    /\ NoCompare

NextPartition == same_content_groups

SpecPartition == InitPartition /\ [][NextPartition]_vars

\* ============================================================ properties
\* what the properties read of the run's start
DiscoveredPaths == UNION {inode_to_paths[i] : i \in DOMAIN inode_to_paths}
StartFile(p) == inodes[start_dirents[p]]
StartContent(p) == StartFile(p).content
StartMetadata(p) ==
    << Len(StartFile(p).content), StartFile(p).uid, StartFile(p).gid, StartFile(p).mode >>
NowMetadata(p) ==
    << Size(p), inodes[Ino(p)].uid, inodes[Ino(p)].gid, inodes[Ino(p)].mode >>
StartNLink(i) == Cardinality({p \in Paths : start_dirents[p] = i})
                 + Cardinality({t \in start_tmp_links : t.ino = i})
LinesOf(kind, file, other) ==
    {k \in 1..Len(log) : log[k].kind = kind /\ log[k].file = file /\ log[k].other = other}
NoIoFailure == failures = 0
InReplace == pc \in {"link", "rename", "cleanup"}

\* C1: after a run that replaces, in which no I/O operation failed, two discovered
\* files that had the same content and the same size, uid, gid and mode share one
\* inode, in either mode and whatever the size of their group.
C1_SameFilesShareInode ==
    (pc = "done" /\ ~dry_run /\ NoIoFailure) =>
        \A p, q \in DiscoveredPaths :
            StartFile(p) = StartFile(q) => dirents[p] = dirents[q]

\* three files alike, on three inodes when the run started, now on one
C1_Witness ==
    /\ pc = "done" /\ ~dry_run /\ NoIoFailure
    /\ \E p, q, r \in DiscoveredPaths :
          /\ Cardinality({start_dirents[p], start_dirents[q], start_dirents[r]}) = 3
          /\ StartFile(p) = StartFile(q) /\ StartFile(q) = StartFile(r)
          /\ dirents[p] = dirents[q] /\ dirents[q] = dirents[r]

\* C2: in every state of every run, two paths whose files differed in size, uid,
\* gid or mode when the run started name different inodes, and each file still has
\* the size, uid, gid and mode it had.
C2_DifferentMetadataNeverLinked ==
    LET metadata == {[path |-> p, start |-> StartMetadata(p), now |-> NowMetadata(p)] :
                        p \in Paths}
    IN  \A p, q \in metadata :
            p.start # q.start =>
                /\ dirents[p.path] # dirents[q.path]
                /\ p.now = p.start
                /\ q.now = q.start

\* a run that replaces has ended; two discovered files of one content differ in
\* uid, gid or mode only, and were both excluded at the metadata stage
C2_Witness ==
    /\ pc = "done" /\ ~dry_run
    /\ \E p, q \in DiscoveredPaths :
          /\ StartContent(p) = StartContent(q)
          /\ StartMetadata(p) # StartMetadata(q)
          /\ \E j, k \in 1..Len(log) :
                /\ log[j] = Line("Excluding", p, "It has unique size, uid, gid, or mode.",
                                 log[j].ctx)
                /\ log[k] = Line("Excluding", q, "It has unique size, uid, gid, or mode.",
                                 log[k].ctx)

\* C3: a dry run calls none of hard_link, rename and remove_file; every path keeps
\* its inode, every inode its link count, no entry appears or disappears, and each
\* original/target pair gets one "Would hardlink" line and nothing else.
C3_DryRunChangesNothing ==
    dry_run =>
        /\ fs_ops = 0
        /\ dirents = start_dirents
        /\ tmp_links = start_tmp_links
        /\ \A p \in Paths : Content(p) = StartContent(p)
        /\ \A i \in DOMAIN inodes : NLink(i) = StartNLink(i)
        /\ relinked = {}
        /\ \A k \in 1..Len(log) : log[k].kind # "Hardlinked"
        /\ \A w \in warnings : w.kind \notin {"link_err", "rename_err",
                                              "rename_and_remove_err"}
        /\ \A pair \in considered :
              Cardinality(LinesOf("Would hardlink", pair[1], pair[2])) = 1
        /\ \A k \in 1..Len(log) :
              log[k].kind = "Would hardlink" => << log[k].file, log[k].other >> \in considered

\* a dry run has ended and reported two targets or more
C3_Witness ==
    /\ dry_run /\ pc = "done"
    /\ Cardinality(considered) >= 2

\* C4: from the call of replace_with_hard_link to its return, whatever fails, the
\* target exists and names the inode it named before or the inode of the original.
C4_TargetNeverAbsent ==
    (~dry_run /\ target # NoPath /\ (InReplace \/ pc = "targets")) =>
        /\ dirents[target] # NoInode
        /\ dirents[target] \in {pre_dirents[target], Ino(original_file)}

\* the rename failed, and the cleanup is about to run
C4_Witness ==
    /\ pc = "cleanup"
    /\ dirents[target] = pre_dirents[target]
    /\ pre_dirents[target] # Ino(original_file)

\* C5: in paranoid mode two paths that the run made share an inode had the same
\* content, also when files of different content agree in metadata, prefix and
\* digest.
C5_ParanoidLinksOnlyEqualContent ==
    paranoid =>
        \A p, q \in Paths :
            (dirents[p] = dirents[q] /\ start_dirents[p] # start_dirents[q]) =>
                StartContent(p) = StartContent(q)

\* a paranoid run has ended; its three files agreed in metadata, prefix and digest
\* but not in content, the comparison told them apart, and two were linked
C5_Witness ==
    /\ paranoid /\ ~dry_run /\ pc = "done"
    /\ total = 3
    /\ \A p, q \in files :
          /\ StartMetadata(p) = StartMetadata(q)
          /\ read_prefix(StartContent(p)) = read_prefix(StartContent(q))
          /\ calculate_hash(StartContent(p)) = calculate_hash(StartContent(q))
    /\ \E p, q \in files : StartContent(p) # StartContent(q)
    /\ relinked # {}

\* C6: after a run that replaces, in which no I/O operation failed, every path
\* discovery recorded for the inode of a member of a final group names the inode
\* of that group's original.
C6_EveryPathOfMemberRelinked ==
    (pc = "done" /\ ~dry_run /\ NoIoFailure) =>
        \A fg \in final_groups :
            \A m \in fg[2] :
                \A p \in inode_to_paths[start_dirents[m]] : dirents[p] = dirents[fg[1]]

\* a replaced member whose inode had two discovered paths
C6_Witness ==
    /\ pc = "done" /\ ~dry_run /\ NoIoFailure
    /\ \E fg \in final_groups :
          \E m \in fg[2] \ {fg[1]} :
              Cardinality(inode_to_paths[start_dirents[m]]) >= 2

\* C7: a second run with the same arguments, after a first one, neither of them
\* in dry-run mode nor with an I/O failure, calls no hard_link and no rename and
\* leaves every path on the inode the first run left it on.
C7_SecondRunChangesNothing ==
    (run >= 2 /\ ~dry_run /\ NoIoFailure) =>
        /\ fs_ops = 0
        /\ dirents = start_dirents
        /\ tmp_links = start_tmp_links

\* the second run has ended, after a first run that did link files
C7_Witness ==
    /\ run = 2 /\ pc = "done" /\ ~dry_run /\ NoIoFailure
    /\ renames > 0
    /\ total >= 2

\* C8, as claimed: bytes_deduped holds the sizes of the members whose replacement
\* succeeded, and of no others.
C8_BytesOnlyForReplacedMembers ==
    ~dry_run => bytes_deduped = ok_bytes

\* the chunks of a content, as a reader delivers them, and the first that differs
Chunk(c, k) == ReadChunk(c, (k - 1) * BufSize, BufSize)
NumChunks(c) == (Len(c) + BufSize - 1) \div BufSize
FirstDifferingChunk(c1, c2) ==
    LET n == 1 + (IF NumChunks(c1) > NumChunks(c2) THEN NumChunks(c1) ELSE NumChunks(c2))
        D == {k \in 1..n : Chunk(c1, k) # Chunk(c2, k)}
    IN  IF D = {} THEN 0 ELSE CHOOSE k \in D : \A j \in D : k <= j

\* C9, as claimed: are_files_same answers not-equal at the first chunk in which the
\* two files differ in bytes or in length, and equal only when both end together
\* with every chunk matched.
C9_CompareDecidesEquality ==
    pc = "compared" =>
        LET d == FirstDifferingChunk(cmp_file, cmp_other_file)
        IN  IF d = 0
            THEN cmp_result = [same |-> TRUE, chunks |-> NumChunks(cmp_file) + 1]
            ELSE cmp_result = [same |-> FALSE, chunks |-> d]

\* C10: a hard_link that fails leaves every entry as it was; a rename that fails
\* leaves the target on its inode and is followed by the deletion of the temporary
\* link, which stays (in the directory of the target) only if the deletion fails
\* too, and that is reported as one error naming both.
C10_FailuresLeaveTargetAlone ==
    /\ InReplace => tmp_file.dir = Parent(target)
    /\ pc = "cleanup" => dirents = pre_dirents
    /\ result = "link_err" => (dirents = pre_dirents /\ tmp_links = pre_tmp_links)
    /\ result = "rename_err" => (dirents = pre_dirents /\ tmp_links = pre_tmp_links)
    /\ result = "rename_and_remove_err" =>
          /\ dirents = pre_dirents
          /\ tmp_links = pre_tmp_links
                           \cup {[dir |-> tmp_file.dir, name |-> tmp_file.name,
                                  ino |-> Ino(original_file)]}
          /\ \E w \in warnings : w.kind = "rename_and_remove_err"
    /\ (~InReplace /\ tmp_links # start_tmp_links) =>
          \E w \in warnings : w.kind = "rename_and_remove_err"

\* the rename and the deletion both failed: the temporary link is left behind
C10_Witness ==
    /\ result = "rename_and_remove_err"
    /\ tmp_links # pre_tmp_links

\* what trace holds
TraceOps(op) == {k \in 1..Len(trace) : trace[k].op = op}
Dropped == UNION {trace[k].failed : k \in TraceOps("group_by")}
ExcludedFiles == {trace[k].file : k \in TraceOps("exclude")}
NoMetadataFiles == {trace[k].file : k \in TraceOps("no_metadata")}
Attempted == {<< trace[k].original, trace[k].target >> : k \in TraceOps("replace")}
ReplaceErrors == {"link_err", "rename_err", "rename_and_remove_err"}

\* nothing is left over: every iterator is exhausted, every representative was
\* dropped with a warning, excluded, or given to hardlink_dedup, and every path of
\* every member whose metadata could be read was handed to the replacement
AllProcessed ==
    /\ meta_groups = {} /\ prefix_groups = {} /\ hash_groups = {}
    /\ content_groups = << >> /\ files_remaining = {} /\ others = {} /\ targets = {}
    /\ \A f \in files :
          f \in Dropped \/ f \in ExcludedFiles \/ \E fg \in final_groups : f \in fg[2]
    /\ \A fg \in final_groups :
          \A m \in fg[2] \ {fg[1]} :
              m \notin NoMetadataFiles =>
                  \A p \in inode_to_paths[start_dirents[m]] : << fg[1], p >> \in Attempted

\* C11: whatever fails, dedup never aborts, every invocation that starts reaches the
\* summary, and at the summary nothing was left out because something else failed:
\* the other paths of the inode, the other members of the group and the later
\* groups were all processed.
C11_FailureIsolated ==
    /\ [](pc # "panicked")
    /\ [](pc = "done" => AllProcessed)
    /\ (pc = "start") ~> (pc = "done")

\* the replacement of one path failed; after it another path of the same inode was
\* replaced, and the run reached the summary
C11_Witness ==
    /\ pc = "done"
    /\ \E i, j \in TraceOps("replace") :
          /\ i < j
          /\ trace[i].result \in ReplaceErrors
          /\ trace[j].result = "ok"
          /\ trace[i].target # trace[j].target
          /\ start_dirents[trace[i].target] = start_dirents[trace[j].target]

\* the names present: the discovered name space and the temporary links
Names(d, links) ==
    {<< Parent(p), p >> : p \in {q \in Paths : d[q] # NoInode}}
        \cup {<< t.dir, t.name >> : t \in links}
CompoundFailures == {k \in TraceOps("replace") : trace[k].result = "rename_and_remove_err"}

\* C12: in every state the paths present are those present when the run started,
\* paths that were not discovered name the inode they named, and the only other
\* entries are temporary links in the directory of a target: the one of the
\* replacement under way, and one for each replacement whose rename and cleanup
\* both failed; at the end of the run nothing else has appeared or disappeared.
C12_OnlyTemporaryLinksAppear ==
    /\ {p \in Paths : dirents[p] # NoInode} = {p \in Paths : start_dirents[p] # NoInode}
    /\ \A p \in Paths \ DiscoveredPaths : dirents[p] = start_dirents[p]
    /\ start_tmp_links \subseteq tmp_links
    /\ \A t \in tmp_links \ start_tmp_links :
          \/ InReplace /\ t.dir = tmp_file.dir /\ t.name = tmp_file.name
                       /\ t.dir = Parent(target)
          \/ \E k \in CompoundFailures : t.dir = Parent(trace[k].target)
    /\ ~InReplace =>
          Cardinality(tmp_links \ start_tmp_links) = Cardinality(CompoundFailures)
    /\ (pc = "done" /\ CompoundFailures = {}) =>
          Names(dirents, tmp_links) = Names(start_dirents, start_tmp_links)

\* a run that linked files and left one temporary link behind has ended; one path
\* lay outside the roots
C12_Witness ==
    /\ pc = "done"
    /\ relinked # {}
    /\ tmp_links # start_tmp_links
    /\ Paths \ DiscoveredPaths # {}

\* the inodes under the roots when the run started
StartInodes == {start_dirents[p] : p \in {q \in Paths : Parent(q) \in roots}}
Abs(n) == IF n < 0 THEN 0 - n ELSE n
Last(q) == q[Len(q)]

\* h hundredths of a percent is 100 * processed / total to two decimals
IsPercentage(h, p, t) == 2 * Abs(h * t - 10000 * p) <= t

C13_State ==
    /\ pc # "start" => total = Cardinality(StartInodes)
    /\ Percentage(0, processed) = 10000
    /\ roots = {} =>
          /\ total = 0 /\ processed = 0 /\ bytes_deduped = 0
          /\ fs_ops = 0 /\ failures = 0 /\ warnings = {}
          /\ dirents = start_dirents /\ tmp_links = start_tmp_links
          /\ \A k \in 1..Len(trace) : trace[k] = Grouped("meta", {}, {}, {})
          /\ pc # "start" => log[1] = Line("Processing", NoPath, 0, << >>)
          /\ pc = "done" =>
                log = << Line("Processing", NoPath, 0, << >>),
                         Line("Estimated saved bytes", NoPath, 0, << >>) >>

C13_Step ==
    /\ (pc # "start" /\ pc' # "start") => total' = total
    /\ (Len(log') = Len(log) + 1 /\ Last(log').ctx # << >>) =>
          /\ total' > 0
          /\ IsPercentage(Last(log').ctx[1], processed', total')

\* C13: every status prefix printed shows 100 * processed / total to two decimals,
\* for the values the two counters have when the line is printed; total is the
\* number of inodes discovered and does not change after discovery; the percentage
\* of a context whose total is 0 is 100; and a run without roots counts 0 files,
\* reads, links and prints nothing but the two lines that report 0.
C13_PercentageIsProcessedOverTotal ==
    /\ []C13_State
    /\ [][C13_Step]_vars

\* a run over three inodes printed a third, two thirds and the whole
C13_Witness ==
    /\ pc = "done" /\ total = 3
    /\ \A h \in {3333, 6667, 10000} :
          \E k \in 1..Len(log) : log[k].ctx # << >> /\ log[k].ctx[1] = h

\* a run without roots has ended
C13_WitnessNoRoots ==
    pc = "done" /\ roots = {} /\ total = 0

\* the groups an entry of trace produced, their stage, and what they were made from
Grouping == TraceOps("group_by") \cup TraceOps("compare")
Produced(k) == IF trace[k].op = "group_by" THEN trace[k].groups ELSE {trace[k].group}
StageOf(k) == IF trace[k].op = "group_by" THEN trace[k].stage ELSE "content"
Refined(k) == IF trace[k].op = "group_by" THEN trace[k].of ELSE trace[k].files
StageBefore(stage) ==
    IF stage = "prefix" THEN {"meta"}
    ELSE IF stage = "hash" THEN {"prefix"}
    ELSE IF stage = "content" THEN {"meta", "prefix", "hash"}
    ELSE {}

\* C14: the groups of every stage are non-empty subsets of what was refined, which
\* is (part of) one single group produced before by the stage above, or the set
\* of representatives at the metadata stage; two groups of one stage, of the same
\* refinement or not, share no file.
C14_StagesRefine ==
    LET grouping == Grouping
    IN  /\ \A k \in grouping :
              /\ \A g \in Produced(k) : g # {} /\ g \subseteq Refined(k)
              /\ IF StageOf(k) = "meta"
                 THEN Refined(k) = files
                 ELSE \E j \in grouping :
                         /\ j < k
                         /\ StageOf(j) \in StageBefore(StageOf(k))
                         /\ \E g \in Produced(j) :
                               IF StageOf(k) = "content" THEN Refined(k) \subseteq g
                               ELSE Refined(k) = g
        /\ \A j, k \in grouping :
              StageOf(j) = StageOf(k) =>
                  \A g \in Produced(j) : \A h \in Produced(k) :
                      (j # k \/ g # h) => g \cap h = {}

\* four files of one size: the prefix told one apart, the digest another, and the
\* comparison the two that were left
C14_Witness ==
    /\ pc = "done"
    /\ \E i, j \in TraceOps("group_by") :
          /\ trace[i].stage = "prefix" /\ Cardinality(trace[i].groups) = 2
          /\ trace[j].stage = "hash" /\ Cardinality(trace[j].groups) = 2
          /\ trace[j].of \in trace[i].groups
    /\ \E i, j \in TraceOps("compare") :
          i # j /\ trace[i].group # trace[j].group

\* the files an entry of trace is about
Touched(k) ==
    IF trace[k].op = "group_by" THEN trace[k].of
    ELSE IF trace[k].op = "compare" THEN trace[k].files
    ELSE IF trace[k].op = "exclude" THEN {trace[k].file}
    ELSE IF trace[k].op = "hardlink_dedup" THEN trace[k].group
    ELSE IF trace[k].op = "no_metadata" THEN {trace[k].original, trace[k].file}
    ELSE {trace[k].original, trace[k].target}

UniquenessMsg(stage) ==
    IF stage = "meta" THEN "It has unique size, uid, gid, or mode."
    ELSE IF stage = "prefix" THEN "It has a unique prefix."
    ELSE IF stage = "hash" THEN "It has a unique hash."
    ELSE "It has unique contents."

C15_State ==
    \A k \in TraceOps("exclude") :
        LET f == trace[k].file
        IN  /\ \A j \in TraceOps("exclude") : trace[j].file = f => j = k
            /\ \E n \in 1..Len(log) :
                  /\ log[n].kind = "Excluding" /\ log[n].file = f
                  /\ log[n].other = UniquenessMsg(trace[k].stage)
                  /\ \A m \in 1..Len(log) :
                        (log[m].kind = "Excluding" /\ log[m].file = f) => m = n
            /\ \A j \in (k + 1)..Len(trace) : f \notin Touched(j)
            /\ \A fg \in final_groups : f \notin fg[2]
            /\ \A p \in inode_to_paths[start_dirents[f]] :
                  /\ dirents[p] = start_dirents[p]
                  /\ \A pair \in considered \cup relinked \cup Attempted :
                        p # pair[1] /\ p # pair[2]

C15_Step ==
    (pc = "check" /\ Cardinality(group) = 1) =>
        /\ processed' = processed + 1
        /\ Len(log') = Len(log) + 1
        /\ Last(log').kind = "Excluding" /\ Last(log').file \in group
        /\ Last(log').other = UniquenessMsg(Stage)
        /\ trace' = Append(trace, Excluded(Stage, Last(log').file))
        /\ dirents' = dirents /\ tmp_links' = tmp_links /\ fs_ops' = fs_ops
        /\ bytes_deduped' = bytes_deduped

\* C15: a group of one file, at whatever stage, is excluded in one step that adds 1
\* to processed and prints one "Excluding" line with the reason of that stage; the
\* file is excluded once, nothing that follows groups, compares or links it, it is
\* in no group given to hardlink_dedup, and no path of its inode is ever an
\* original or a target or changes its inode.
C15_UniqueFileIsExcluded ==
    /\ []C15_State
    /\ [][C15_Step]_vars

\* a paranoid run over four files of one size excluded one for its prefix, one for
\* its digest and two for their contents
C15_Witness ==
    /\ pc = "done"
    /\ \A stage \in {"prefix", "hash", "content"} :
          \E k \in TraceOps("exclude") : trace[k].stage = stage
    /\ processed = 4

\* a run excluded files whose size, owner, group or mode was theirs alone
C15_WitnessMetadata ==
    /\ pc = "done"
    /\ \E k \in TraceOps("exclude") : trace[k].stage = "meta"

\* the pairs the metadata stage and the prefix stage produced, with the entry of
\* trace that produced them
PairsMade ==
    UNION {{<< j, P >> : P \in {g \in trace[j].groups : Cardinality(g) = 2}} :
              j \in {i \in TraceOps("group_by") : trace[i].stage \in {"meta", "prefix"}}}
ComparedAsPair(P) == {k \in TraceOps("compare") : trace[k].files = P}
SameStartContent(P) == \A a, b \in P : StartContent(a) = StartContent(b)

\* C16: a pair that the metadata stage or the prefix stage produced is refined by no
\* later stage (no prefix and no digest of its files is read); the first thing done
\* with its files is the comparison of the two, which finds them equal exactly when
\* it did not fail and their contents are equal; the pair is given to hardlink_dedup
\* only after that comparison found them equal, and by the end of the run always
\* then, while otherwise both files are excluded for their contents; a run that
\* replaces, without I/O failure, ends with the two on one inode exactly when the
\* comparison found them equal.
C16_PairIsComparedDirectly ==
    \A jp \in PairsMade :
        LET j == jp[1]
            P == jp[2]
            after == {i \in (j + 1)..Len(trace) : Touched(i) \cap P # {}}
            cmp == ComparedAsPair(P)
        IN  /\ \A i \in TraceOps("group_by") : i > j => trace[i].of \cap P = {}
            /\ Cardinality(cmp) <= 1
            /\ after # {} => (CHOOSE i \in after : \A h \in after : i <= h) \in cmp
            /\ \A k \in cmp :
                  trace[k].group = P <=> (trace[k].failed = {} /\ SameStartContent(P))
            /\ \A i \in TraceOps("hardlink_dedup") :
                  trace[i].group \cap P # {} =>
                      /\ trace[i].group = P
                      /\ \E k \in cmp : k < i /\ trace[k].group = P
            /\ pc = "done" =>
                  /\ cmp # {}
                  /\ \A k \in cmp :
                        IF trace[k].group = P
                        THEN \E i \in TraceOps("hardlink_dedup") : trace[i].group = P
                        ELSE \A f \in P : \E i \in TraceOps("exclude") :
                                trace[i].file = f /\ trace[i].stage = "content"
                  /\ (~dry_run /\ NoIoFailure) =>
                        \A k \in cmp :
                            trace[k].group = P <=> \A a, b \in P : dirents[a] = dirents[b]

\* of four files of one size the prefix stage made two pairs; one pair compared
\* equal and was linked
C16_Witness ==
    /\ pc = "done" /\ ~dry_run
    /\ \E jp \in PairsMade :
          /\ trace[jp[1]].stage = "prefix"
          /\ Cardinality(trace[jp[1]].groups) = 2
          /\ \E k \in ComparedAsPair(jp[2]) : trace[k].group = jp[2]
          /\ \A a, b \in jp[2] : dirents[a] = dirents[b]

\* a pair of the metadata stage compared different, and neither file was linked
C16_WitnessDifferent ==
    /\ pc = "done" /\ ~dry_run /\ NoIoFailure
    /\ \E jp \in PairsMade :
          /\ trace[jp[1]].stage = "meta"
          /\ \E k \in ComparedAsPair(jp[2]) : trace[k].group # jp[2]
          /\ \A a \in jp[2] : dirents[a] = start_dirents[a]

\* the key of a stage, of the file a path named when the run started
StartKey(stage, p) ==
    IF stage = "meta"
    THEN << Len(StartContent(p)), StartFile(p).gid, StartFile(p).uid, StartFile(p).mode >>
    ELSE IF stage = "prefix" THEN read_prefix(StartContent(p))
    ELSE << calculate_hash(StartContent(p)) >>
SkippingKind(stage) == IF stage = "meta" THEN "metadata" ELSE stage
Outcomes == TraceOps("exclude") \cup TraceOps("hardlink_dedup")

\* C17: a file for which a stage could not compute its key gets a warning and is in
\* none of the groups of that stage; nothing that follows groups, compares, excludes
\* or links it, and no path of its inode is an original or a target or changes its
\* inode; the other files of the group are grouped by their keys as if it had not
\* been there, and by the end of the run each of them was excluded, given to
\* hardlink_dedup, or dropped in its turn by a later stage.  (An entry of trace
\* never changes, nor do the keys of the files the run started from: what a call
\* produced is compared with the keys in the state that follows the call.)
C17_UnreadableFileIsDropped ==
    \A k \in TraceOps("group_by") :
        LET e == trace[k]
            kept == e.of \ e.failed
            key == [f \in kept |-> StartKey(e.stage, f)]
        IN  /\ e.failed \subseteq e.of
            /\ UNION e.groups = kept
            /\ k = Len(trace) =>
                  \A a, b \in kept :
                      (\E g \in e.groups : a \in g /\ b \in g) <=> key[a] = key[b]
            /\ \A f \in e.failed :
                  /\ Warning(SkippingKind(e.stage), f, NoPath) \in warnings
                  /\ \A i \in (k + 1)..Len(trace) : f \notin Touched(i)
                  /\ \A fg \in final_groups : f \notin fg[2]
                  /\ \A p \in inode_to_paths[start_dirents[f]] :
                        /\ dirents[p] = start_dirents[p]
                        /\ \A pair \in considered \cup relinked \cup Attempted :
                              p # pair[1] /\ p # pair[2]
            /\ pc = "done" =>
                  \A f \in kept :
                      \/ \E i \in Outcomes : i > k /\ f \in Touched(i)
                      \/ \E i \in TraceOps("group_by") : i > k /\ f \in trace[i].failed

\* of three files alike one had no metadata; the other two went on as a pair, were
\* compared and linked
C17_Witness ==
    /\ pc = "done" /\ ~dry_run
    /\ \E k \in TraceOps("group_by") :
          /\ trace[k].stage = "meta"
          /\ Cardinality(trace[k].of) = 3
          /\ Cardinality(trace[k].failed) = 1
          /\ \E P \in trace[k].groups :
                /\ Cardinality(P) = 2
                /\ \E i \in ComparedAsPair(P) : i > k /\ trace[i].group = P
                /\ \A a, b \in P : dirents[a] = dirents[b]

\* of three files alike one had no digest; the other two were given to
\* hardlink_dedup as a group of two
C17_WitnessHash ==
    /\ pc = "done" /\ ~paranoid
    /\ \E k \in TraceOps("group_by") :
          /\ trace[k].stage = "hash"
          /\ Cardinality(trace[k].failed) = 1
          /\ \E i \in TraceOps("hardlink_dedup") :
                i > k /\ trace[i].group = trace[k].of \ trace[k].failed

\* the files that can have been the pivot of an iteration of same_content_groups:
\* its group is the pivot and the others of equal content whose comparison with it
\* did not fail, and every failed comparison was reported with the pivot
PivotsOf(e) ==
    {file \in e.group :
        /\ e.group = {file} \cup {o \in e.files \ ({file} \cup e.failed) :
                                     StartContent(o) = StartContent(file)}
        /\ \A o \in e.failed : Warning("compare", file, o) \in warnings}

\* C18: in every iteration of same_content_groups the files whose comparison with
\* the pivot failed are not in the pivot's group, which is the pivot and the files
\* that compared equal; they stay in the remaining set, which the next iteration
\* takes its pivot and its group from.  (The group is compared with the contents in
\* the state that follows the iteration: entries of trace never change.)
C18_FailedComparisonIsNotEqual ==
    \A k \in TraceOps("compare") :
        LET e == trace[k]
            rest == e.files \ e.group
        IN  /\ e.group \subseteq e.files
            /\ e.failed \subseteq rest
            /\ k = Len(trace) => PivotsOf(e) # {}
            /\ rest # {} =>
                  IF k = Len(trace)
                  THEN pc = "partition" /\ files_remaining = rest
                  ELSE trace[k + 1].op = "compare" /\ trace[k + 1].files = rest

\* the comparison of the pivot with one of two others failed: the pivot formed a
\* group with the other one, and the file was left alone
C18_Witness ==
    \E k \in TraceOps("compare") :
        /\ Cardinality(trace[k].files) = 3
        /\ Cardinality(trace[k].failed) = 1
        /\ Cardinality(trace[k].group) = 2
        /\ k < Len(trace) /\ trace[k + 1].group = trace[k].failed

\* both comparisons of the pivot failed: the two others were grouped with each
\* other by the next iteration
C18_WitnessGroupedLater ==
    \E k \in TraceOps("compare") :
        /\ Cardinality(trace[k].failed) = 2
        /\ k < Len(trace) /\ trace[k + 1].group = trace[k].failed

\* what same_content_groups returned, and the files it was given
Returned == pc = "loop" /\ in_content
OneSize(S) == \A a, b \in S : Len(StartContent(a)) = Len(StartContent(b))
GroupsWith(f) == {k \in 1..Len(content_groups) : f \in content_groups[k]}

\* C19: given readable files of one size, same_content_groups makes at most as many
\* iterations as there are files, each of which takes at least the pivot out of the
\* remaining set, and what it returns puts every file in exactly one group, and two
\* files in the same group exactly when their contents are equal byte for byte.
C19_PartitionIntoEqualContentClasses ==
    OneSize(group) =>
        /\ Len(content_groups) + Cardinality(files_remaining) <= Cardinality(group)
        /\ Len(trace) = Len(content_groups)
        /\ pc = "partition" => files_remaining # {}
        /\ Returned =>
              /\ files_remaining = {}
              /\ Len(content_groups) <= Cardinality(group)
              /\ \A f \in group : Cardinality(GroupsWith(f)) = 1
              /\ \A k \in 1..Len(content_groups) : content_groups[k] \subseteq group
              /\ \A a, b \in group :
                    GroupsWith(a) = GroupsWith(b) <=> StartContent(a) = StartContent(b)

\* four files of one size, two of them equal, came back as three groups
C19_Witness ==
    /\ Returned /\ OneSize(group)
    /\ Cardinality(group) = 4
    /\ Len(content_groups) = 3
    /\ \E k \in 1..Len(content_groups) : Cardinality(content_groups[k]) = 2

\* the entries of trace about the files of a group
About(G) == {i \in 1..Len(trace) : Touched(i) \cap G # {}}

\* C20: the groups one call of group_by produced, at the metadata, prefix or hash
\* stage, are worked on one after the other: between two entries of trace about
\* the files of one group (a grouping of it or of a part of it, an exclusion, a
\* comparison, a call of hardlink_dedup, a replacement) there is no entry about the
\* files of another group of the same call.  (trace only grows, so it is enough
\* that the newest entry never comes back to a group that was left.)
C20_GroupsNotInterleaved ==
    \A j \in TraceOps("group_by") :
        \A G \in {g \in trace[j].groups : Touched(Len(trace)) \cap g # {}} :
            \A H \in trace[j].groups \ {G} :
                \A a \in About(G) : \A b \in About(H) :
                    ~(j < a /\ a < b /\ b < Len(trace))

\* of two metadata groups one was split by prefix into a pair, which was compared
\* and linked, and a single file; the other metadata group came before or after
C20_Witness ==
    /\ pc = "done" /\ ~dry_run
    /\ \E j, k \in TraceOps("group_by") :
          /\ trace[j].stage = "meta" /\ Cardinality(trace[j].groups) = 2
          /\ trace[k].stage = "prefix" /\ Cardinality(trace[k].groups) = 2
          /\ trace[k].of \in trace[j].groups
          /\ \A G \in trace[j].groups \cup trace[k].groups : About(G) \ {j, k} # {}
    /\ relinked # {}

\* the representatives counted in processed so far: the files excluded and the
\* members of the groups given to hardlink_dedup that its iterator has yielded
DedupedFiles == UNION {trace[k].group : k \in TraceOps("hardlink_dedup")}
Counted == (ExcludedFiles \cup DedupedFiles) \ others
\* the number of additions of 1 to processed that trace accounts for
Additions ==
    Sum([k \in 1..Len(trace) |->
            IF trace[k].op = "exclude" THEN 1
            ELSE IF trace[k].op = "hardlink_dedup" THEN Cardinality(trace[k].group)
            ELSE 0]) - Cardinality(others)

C21_State ==
    /\ processed = Additions
    /\ processed = Cardinality(Counted)
    /\ Counted \subseteq files
    /\ Counted \cap Dropped = {}
    /\ ExcludedFiles \cap DedupedFiles = {}
    /\ NoMetadataFiles \subseteq Counted
    /\ processed <= total
    /\ pc = "done" =>
          /\ Counted = files \ Dropped
          /\ processed = total - Cardinality(Dropped)
          /\ processed = total <=> Dropped = {}

C21_Step ==
    pc' # "start" =>
        /\ processed' \in {processed, processed + 1}
        /\ Counted \subseteq Counted'

\* C21: processed is the number of representatives excluded or yielded by the
\* iterator of a hardlink_dedup call, each of them counted once and by one of the
\* two only; a step adds 1 to it or leaves it, and a file once counted stays
\* counted; it never exceeds total; a file that group_by dropped at the metadata,
\* prefix or hash stage is never counted, and at the summary processed is total less
\* the files so dropped, hence total exactly when none was.  (A member whose
\* metadata hardlink_dedup could not read was counted before the attempt.)
C21_ProcessedCountsEachFileOnce ==
    /\ []C21_State
    /\ [][C21_Step]_vars

\* a run over three files dropped one for its digest and ended at two of three
C21_Witness ==
    /\ pc = "done"
    /\ total = 3 /\ processed = 2
    /\ \E k \in TraceOps("group_by") :
          trace[k].stage = "hash" /\ Cardinality(trace[k].failed) = 1
    /\ DedupedFiles # {}

\* a run over four files, in which nothing failed, excluded some and gave the
\* others to hardlink_dedup: it ended at four of four
C21_WitnessAllCounted ==
    /\ pc = "done" /\ NoIoFailure
    /\ total = 4 /\ processed = 4
    /\ ExcludedFiles # {} /\ DedupedFiles # {}

\* the metadata of a member could not be read inside hardlink_dedup: the run ended
\* at the whole all the same
C21_WitnessNoMetadata ==
    /\ pc = "done"
    /\ NoMetadataFiles # {}
    /\ processed = total

\* what the analysis alone determines: the members whose size was added to
\* bytes_deduped (yielded by the iterator, metadata read, replace_many returned),
\* their sizes when the run started, and the pairs handed to the replacement
Originals == {trace[k].original : k \in TraceOps("hardlink_dedup")}
InMember == pc \in {"targets", "link", "rename", "cleanup"}
MemberUnderWay == IF InMember THEN {other_file} ELSE {}
Credited == ((DedupedFiles \ Originals) \ (NoMetadataFiles \cup others)) \ MemberUnderWay
RECURSIVE StartBytes(_)
StartBytes(S) ==
    IF S = {} THEN 0
    ELSE LET m == CHOOSE x \in S : TRUE
         IN  Len(StartContent(m)) + StartBytes(S \ {m})
OriginalOf(m) == CHOOSE o \in Paths : \E fg \in final_groups : fg[1] = o /\ m \in fg[2]
Planned(M) ==
    UNION {{<< OriginalOf(m), p >> : p \in inode_to_paths[start_dirents[m]]} : m \in M}
HardlinkReports == {"Would hardlink", "Hardlinked"}
AnalysisOf(q) == SelectSeq(q, LAMBDA e : e.op # "replace")

\* the newest entry of trace is what the files of the run's start give, whatever
\* the run has replaced since
ReadsAsAtStart ==
    trace # << >> =>
        LET e == Last(trace)
        IN  /\ e.op = "group_by" =>
                  \A a, b \in e.of \ e.failed :
                      (\E g \in e.groups : a \in g /\ b \in g)
                          <=> StartKey(e.stage, a) = StartKey(e.stage, b)
            /\ e.op = "compare" => PivotsOf(e) # {}

\* the two counters, and what is handed to the replacement, in either mode
C22_Counters ==
    /\ processed = Additions
    /\ bytes_deduped = StartBytes(Credited)
    /\ ReadsAsAtStart
    /\ InMember =>
          other_file_metadata = [ino |-> start_dirents[other_file],
                                 len |-> Len(StartContent(other_file))]
    /\ Planned(Credited) \subseteq considered
    /\ considered \subseteq Planned(Credited \cup MemberUnderWay)
    /\ pc = "done" =>
          /\ processed = Cardinality(files \ Dropped)
          /\ bytes_deduped = StartBytes((DedupedFiles \ Originals) \ NoMetadataFiles)
          /\ considered = Planned((DedupedFiles \ Originals) \ NoMetadataFiles)
          /\ Last(log) = Line("Estimated saved bytes", NoPath, bytes_deduped, << >>)

\* what differs: the file system, and the report of each pair
C22_Reports ==
    /\ \A k \in TraceOps("replace") : trace[k].result = "would" <=> dry_run
    /\ \A k \in 1..Len(log) :
          /\ log[k].kind = "Would hardlink" => dry_run
          /\ log[k].kind = "Hardlinked" => ~dry_run
    /\ dry_run =>
          /\ dirents = start_dirents /\ tmp_links = start_tmp_links /\ fs_ops = 0
          /\ \A pair \in considered :
                Cardinality(LinesOf("Would hardlink", pair[1], pair[2])) = 1
    /\ (~dry_run /\ pc = "done") =>
          \A pair \in considered :
              \/ /\ Cardinality(LinesOf("Hardlinked", pair[1], pair[2])) = 1
                 /\ pair \in relinked
              \/ /\ LinesOf("Hardlinked", pair[1], pair[2]) = {}
                 /\ \E w \in warnings :
                       w.kind \in ReplaceErrors /\ w.file = pair[1] /\ w.other = pair[2]

\* a call of hard_link, rename or remove_file, whatever its outcome, changes neither
\* counter and nothing the analysis recorded
C22_ReplaceStep ==
    InReplace =>
        /\ processed' = processed
        /\ bytes_deduped' = bytes_deduped
        /\ AnalysisOf(trace') = AnalysisOf(trace)
        /\ considered' = considered

\* a line printed, other than the report of a pair
OtherLinePrinted ==
    /\ Len(log') = Len(log) + 1
    /\ Last(log').kind \notin HardlinkReports
    /\ Last(log').ctx # << >>

\* C22, as claimed: the two runs differ only in filesystem mutations and in the
\* reports of the pairs, so that every other line a dry run prints is the line the
\* run that replaces prints at that point, whose status prefix has no mark.
C22_RunsDifferOnlyInReports ==
    /\ []C22_Counters
    /\ []C22_Reports
    /\ [][C22_ReplaceStep]_vars
    /\ [][OtherLinePrinted =>
             Last(log').ctx = << Percentage(total', processed'), FALSE, bytes_deduped' >>]_vars

\* C22: in either mode, and whatever the outcomes of hard_link, rename and
\* remove_file, processed and bytes_deduped are what the analysis determines from
\* the files of the run's start (the groupings, exclusions, comparisons and metadata
\* reads, which no replacement changes), and so are the pairs handed to the
\* replacement; the two modes differ in the file system, in the report of each pair
\* ("Would hardlink" in a dry run, "Hardlinked" or a warning otherwise), and in the
\* mark "; dry run" that every status prefix of a dry run carries.
C22_CountersIndependentOfMode ==
    /\ []C22_Counters
    /\ []C22_Reports
    /\ [][C22_ReplaceStep]_vars
    /\ [][OtherLinePrinted =>
             Last(log').ctx = << Percentage(total', processed'), dry_run, bytes_deduped' >>]_vars

\* a run that replaces ended with the size of a member counted although the rename
\* over one of its paths failed
C22_Witness ==
    /\ pc = "done" /\ ~dry_run
    /\ bytes_deduped > 0 /\ bytes_deduped # ok_bytes
    /\ \E k \in TraceOps("replace") : trace[k].result \in {"rename_err", "rename_and_remove_err"}
    /\ considered # relinked

\* a dry run over the same kind of files ended with the same counters
C22_WitnessDryRun ==
    /\ pc = "done" /\ dry_run
    /\ bytes_deduped > 0 /\ processed = total
    /\ considered # {} /\ relinked = {}
    /\ ExcludedFiles # {}

\* the links of an inode among given entries, and the inodes of the originals
NLinkIn(d, links, i) ==
    Cardinality({p \in Paths : d[p] = i}) + Cardinality({t \in links : t.ino = i})
OriginalInodes == {start_dirents[fg[1]] : fg \in final_groups}
Targeted == {pair[2] : pair \in considered \cup relinked \cup Attempted}

\* the original of every group given to hardlink_dedup so far
C23_OriginalUntouched ==
    \A fg \in final_groups :
        LET o == fg[1]
            i == start_dirents[o]
        IN  /\ o \in fg[2]
            /\ i # NoInode
            /\ dirents[o] = i
            /\ \A other \in final_groups : other # fg => o \notin other[2]
            /\ \A p \in Paths :
                  start_dirents[p] = i => (dirents[p] = i /\ p \notin Targeted)
            /\ NLinkIn(dirents, tmp_links, i) >= NLinkIn(start_dirents, start_tmp_links, i)

\* no rename goes over a name of the inode of an original
C23_RenameStep ==
    pc = "rename" =>
        /\ dirents[target] \notin OriginalInodes
        /\ dirents[target] # Ino(original_file)
        /\ Ino(original_file) \in OriginalInodes

\* the link count of the inode of an original from one state to the next
C23_NeverDecreases ==
    \A i \in OriginalInodes :
        NLinkIn(dirents', tmp_links', i) >= NLinkIn(dirents, tmp_links, i)

C23_DecreasesOnlyInCleanup ==
    \A i \in OriginalInodes :
        \/ NLinkIn(dirents', tmp_links', i) >= NLinkIn(dirents, tmp_links, i)
        \/ /\ pc = "cleanup"
           /\ i = Ino(original_file)
           /\ tmp_links' = tmp_links \ {TmpEntry(i)}
           /\ dirents' = dirents
           /\ NLinkIn(dirents', tmp_links', i) = NLinkIn(pre_dirents, pre_tmp_links, i)

\* C23, as claimed: the original of a final group is never a target, no path of its
\* inode is renamed over, its path keeps its inode throughout the run, and the link
\* count of its inode never decreases from one state to the next.
C23_OriginalLinkCountNeverDecreases ==
    /\ []C23_OriginalUntouched
    /\ [][C23_RenameStep]_vars
    /\ [][C23_NeverDecreases]_vars

\* C23: the original of a final group is in no other group and is never a target;
\* no path that named its inode when the run started is a target or changes its
\* inode, and no rename goes over a name of that inode; the link count of its inode
\* is never below the count at the start of the run, and decreases in one step only:
\* the deletion of the temporary link after a rename failed, which takes it back
\* to the count it had when replace_with_hard_link was called.
C23_OriginalIsNeverReplaced ==
    /\ []C23_OriginalUntouched
    /\ [][C23_RenameStep]_vars
    /\ [][C23_DecreasesOnlyInCleanup]_vars

\* of the two other members of a group one was linked to the original; the rename
\* over the other failed and the temporary link was deleted again
C23_Witness ==
    /\ pc = "done"
    /\ \E fg \in final_groups :
          /\ Cardinality(fg[2]) = 3
          /\ \E k \in TraceOps("replace") :
                trace[k].original = fg[1] /\ trace[k].result = "rename_err"
          /\ NLinkIn(dirents, tmp_links, start_dirents[fg[1]])
                = NLinkIn(start_dirents, start_tmp_links, start_dirents[fg[1]]) + 1

\* the inode of the original had two paths, the one chosen and another, and gained
\* the two paths of the other member
C23_WitnessTwoPaths ==
    /\ pc = "done" /\ NoIoFailure
    /\ \E fg \in final_groups :
          /\ NLinkIn(start_dirents, start_tmp_links, start_dirents[fg[1]]) = 2
          /\ NLinkIn(dirents, tmp_links, start_dirents[fg[1]]) = 4

====
